---- MODULE Spec2Model ----
(***************************************************************************)
(* Model of scripts/benchmark_python_hnswlib.py: the main program runs     *)
(* run_benchmark() (sequential and thread-pool sweep over THREAD_COUNTS)   *)
(* and then test_with_multiprocessing() (a single-process baseline and a   *)
(* process-pool sweep over [2, 4, 8]).                                     *)
(*                                                                         *)
(* Sizes are scaled down: the script's NUM_VECTORS = 31173, NUM_QUERIES =  *)
(* 100, batch_size = 1000, range(10) warm-up, THREAD_COUNTS =              *)
(* [1, 5, 10, 20, 50] and process counts [2, 4, 8] become the small values *)
(* below, chosen so that worker counts below, equal to and above the       *)
(* number of queries, and divisible and non-divisible partitions, occur.   *)
(***************************************************************************)
EXTENDS Integers, Sequences, FiniteSets, TLC

\* ----------------------------------------------------------------- sizes
\* NUM_VECTORS (line 17), scaled.
NUM_VECTORS == 4
\* NUM_QUERIES (line 19), scaled.
NUM_QUERIES == 4
\* batch_size of build_index (line 43), scaled.
BATCH_SIZE == 2
\* range(10) of the warm-up loop (line 117), scaled.
WARMUP == 2
\* cpu_count() is read from the machine: 1..MaxCpu.
MaxCpu == 4
\* np.random.choice is modelled by MaxDraws different outcomes.
MaxDraws == 2
\* Sample sizes of the partition specification PartSpec: 1..MaxSample.
MaxSample == 7

\* THREAD_COUNTS (line 21) is a configuration constant of the script: the
\* run is modelled for the shipped shape (sequential first, then pools
\* smaller and larger than the sample) and for a sweep that does not start
\* with the sequential entry.
ThreadSweeps == {<<1, 2, 6>>, <<2, 1>>}
\* The literal list of line 212, scaled from [2, 4, 8].
PROC_COUNTS == <<2, 3, 4>>
\* A measured wall-clock duration in ms (time.time() differences), positive.
Durations == {1, 2}

VARIABLES
    pc,            \* position of the main program
    failed,        \* "" or the phase whose exception ended the program
    ncpu,          \* what cpu_count() returns on this machine
    thread_counts, \* THREAD_COUNTS
    num_queries,   \* NUM_QUERIES as configured
    ngen,          \* number of corpora generated so far
    vectors,       \* the current function's corpus (its generation number)
    nvec,          \* len(vectors)
    queries,       \* the current function's query sample (labels)
    index,         \* the current function's canonical index
    build_i,       \* loop variable i of build_index
    warm,          \* warm-up queries issued
    warmed,        \* per warm-up query issued: the index it ran against
    t_i,           \* position in thread_counts
    num_threads,   \* loop variable of run_benchmark
    cfg,           \* number of configurations started so far
    timer,         \* 0, or the configuration whose timer is running
    live,          \* live pool workers: <<configuration, worker number>>
    futures,       \* per submitted query: "new", "queued", "running", "done"
    fres,          \* per query: the result its future holds
    execs,         \* per query: indexes it was executed against, in order
    results,       \* the result list of the current configuration
    search_time,   \* search_time / mp_time of the last configuration
    rb_results,    \* run_benchmark's results list
    summary,       \* the SUMMARY block of run_benchmark
    report,        \* metric rows printed so far
    issued,        \* per configuration started: the queries it issues
    index_file,    \* /tmp/hnsw_index.bin
    single_qps,    \* baseline of test_with_multiprocessing
    mp_i,          \* position in PROC_COUNTS
    num_proc,      \* loop variable of test_with_multiprocessing
    query_batches, \* the batches of the current process configuration
    bstate,        \* per batch: "queued", "running", "done"
    bres,          \* per batch: the results its worker returned
    speedup,       \* last speedup printed by test_with_multiprocessing
    skipped,       \* process counts skipped
    launched       \* process counts for which a Pool was created

vars == <<pc, failed, ncpu, thread_counts, num_queries, ngen, vectors, nvec, queries,
          index, build_i, warm, warmed, t_i, num_threads, cfg, timer, live, futures,
          fres, execs, results, search_time, rb_results, summary, report,
          issued, index_file, single_qps, mp_i, num_proc, query_batches,
          bstate, bres, speedup, skipped, launched>>

\* Variables of the data and index.
dataVars == <<ngen, vectors, nvec, queries, index, build_i, warm, warmed>>
\* Variables of the thread sweep.
threadVars == <<t_i, num_threads, futures, fres, execs, rb_results, summary>>
\* Variables of the process sweep.
procVars == <<index_file, single_qps, mp_i, num_proc, query_batches, bstate,
              bres, speedup, skipped, launched>>
\* Variables of the environment and configuration.
envVars == <<ncpu, thread_counts, num_queries>>

\* --------------------------------------------------------------- helpers
Min(a, b) == IF a < b THEN a ELSE b

RECURSIVE Flatten(_)
Flatten(ss) == IF ss = <<>> THEN <<>> ELSE Head(ss) \o Flatten(Tail(ss))

\* An index that has not been initialised.
NoIndex == [corpus |-> 0, items |-> <<>>, ef |-> FALSE]
NoFile == [exists |-> FALSE, data |-> NoIndex]
NoSummary == [printed |-> FALSE, single_from |-> 0, single_qps |-> [num |-> 0, den |-> 1],
              best |-> 0, speedup |-> [num |-> 0, den |-> 1]]

\* np.random.choice(n, m, replace=False): m distinct labels of 0..n-1; the
\* d-th outcome modelled.
Sample(n, m, d) == [i \in 1..m |-> (d + i - 1) % n]

\* index.knn_query(query, k) is a function of the index and the query.
KnnQuery(idx, q) == <<idx.corpus, q>>

\* (NUM_QUERIES * 1000) / time as a fraction.
Qps(t) == [num |-> NUM_QUERIES * 1000, den |-> t]
\* a / b of two fractions.
Ratio(a, b) == [num |-> a.num * b.den, den |-> a.den * b.num]
\* a > b of two fractions with positive denominators.
Greater(a, b) == a.num * b.den > b.num * a.den

\* max(results, key=qps): the first entry of the greatest qps.
BestResult(rs) ==
    CHOOSE i \in 1..Len(rs) :
        /\ \A j \in 1..Len(rs) : ~Greater(rs[j].qps, rs[i].qps)
        /\ \A j \in 1..(i - 1) : Greater(rs[i].qps, rs[j].qps)

\* ------------------------------------------------------------------ Init
Init ==
    /\ pc = "rb_generate"
    /\ failed = ""
    /\ ncpu \in 1..MaxCpu
    /\ thread_counts \in ThreadSweeps
    /\ num_queries \in {NUM_QUERIES, NUM_VECTORS + 1}
    /\ ngen = 0
    /\ vectors = 0
    /\ nvec = 0
    /\ queries = <<>>
    /\ index = NoIndex
    /\ build_i = 0
    /\ warm = 0
    /\ warmed = <<>>
    /\ t_i = 0
    /\ num_threads = 0
    /\ cfg = 0
    /\ timer = 0
    /\ live = {}
    /\ futures = <<>>
    /\ fres = <<>>
    /\ execs = <<>>
    /\ results = <<>>
    /\ search_time = 0
    /\ rb_results = <<>>
    /\ summary = NoSummary
    /\ report = <<>>
    /\ issued = <<>>
    /\ index_file = NoFile
    /\ single_qps = [num |-> 0, den |-> 1]
    /\ mp_i = 0
    /\ num_proc = 0
    /\ query_batches = <<>>
    /\ bstate = <<>>
    /\ bres = <<>>
    /\ speedup = [num |-> 0, den |-> 1]
    /\ skipped = {}
    /\ launched = {}

\* An uncaught exception of `phase`: the interpreter prints the traceback and
\* exits; nothing after the raising statement runs.
Abort(phase) ==
    /\ pc' = "aborted"
    /\ failed' = phase

\* A configuration starts: its timer is started and its queries are logged.
StartConfig(fn, workers, qs) ==
    /\ cfg' = cfg + 1
    /\ timer' = cfg + 1
    /\ issued' = Append(issued, [fn |-> fn, workers |-> workers,
                                 corpus |-> vectors, qs |-> qs])

\* -------------------------------------------------------- run_benchmark
\* Mutant of RBGenerate: the sample is drawn with replacement, so a sample
\* larger than the corpus is drawn too.
RBGenerateWithReplacement ==
    /\ pc = "rb_generate"
    /\ ngen' = ngen + 1
    /\ vectors' = ngen + 1
    /\ nvec' = NUM_VECTORS
    /\ \E d \in 0..(MaxDraws - 1) : queries' = Sample(NUM_VECTORS, num_queries, d)
    /\ pc' = "rb_build"
    /\ UNCHANGED <<failed, index, build_i, warm, warmed, cfg, timer, live, results,
                   search_time, report, issued>>
    /\ UNCHANGED <<envVars, threadVars, procVars>>

\* Lines 100-101: the corpus and the query sample.
RBGenerate ==
    /\ pc = "rb_generate"
    /\ num_queries <= NUM_VECTORS
    /\ ngen' = ngen + 1
    /\ vectors' = ngen + 1
    /\ nvec' = NUM_VECTORS
    /\ \E d \in 0..(MaxDraws - 1) : queries' = Sample(NUM_VECTORS, num_queries, d)
    /\ pc' = "rb_build"
    /\ UNCHANGED <<failed, index, build_i, warm, warmed, cfg, timer, live, results,
                   search_time, report, issued>>
    /\ UNCHANGED <<envVars, threadVars, procVars>>

\* Line 101 with NUM_QUERIES > NUM_VECTORS: np.random.choice raises
\* ValueError (a larger sample than the population, replace=False).
RBSampleFails ==
    /\ pc = "rb_generate"
    /\ num_queries > NUM_VECTORS
    /\ ngen' = ngen + 1
    /\ vectors' = ngen + 1
    /\ nvec' = NUM_VECTORS
    /\ Abort("sample")
    /\ UNCHANGED <<queries, index, build_i, warm, warmed, cfg, timer, live, results,
                   search_time, report, issued>>
    /\ UNCHANGED <<envVars, threadVars, procVars>>

\* build_index, lines 38-39: the empty index.
RBInitIndex ==
    /\ pc = "rb_build"
    /\ index' = [corpus |-> vectors, items |-> <<>>, ef |-> FALSE]
    /\ build_i' = 0
    /\ pc' = "rb_add"
    /\ UNCHANGED <<failed, ngen, vectors, nvec, queries, warm, warmed, cfg, timer, live,
                   results, search_time, report, issued>>
    /\ UNCHANGED <<envVars, threadVars, procVars>>

\* vectors[i:i+batch_size], line 45: the positions of the slice, which ends
\* at the end of the corpus.
BatchVectors(i, n) == [k \in 1..(Min(i + BATCH_SIZE, n) - i) |-> i + k - 1]

\* index.add_items(batch, labels), line 47: the k-th vector gets the k-th
\* label.
AddItems(items, vecs, labels) ==
    items \o [k \in 1..Len(vecs) |-> [vec |-> vecs[k], label |-> labels[k]]]

\* Mutant of BatchLabels: the labels of every batch start at 0.
BatchLabelsFromZero(i, n) == [k \in 1..(Min(i + BATCH_SIZE, n) - i) |-> k - 1]

\* np.arange(i, min(i + batch_size, n)), line 46.
BatchLabels(i, n) == [k \in 1..(Min(i + BATCH_SIZE, n) - i) |-> i + k - 1]

\* build_index, lines 44-47: one batch.
RBAddItems ==
    /\ pc = "rb_add"
    /\ build_i < nvec
    /\ Len(BatchVectors(build_i, nvec)) = Len(BatchLabels(build_i, nvec))
    /\ index' = [index EXCEPT !.items = AddItems(@, BatchVectors(build_i, nvec),
                                                 BatchLabels(build_i, nvec))]
    /\ build_i' = build_i + BATCH_SIZE
    /\ UNCHANGED <<pc, failed, ngen, vectors, nvec, queries, warm, warmed, cfg, timer, live,
                   results, search_time, report, issued>>
    /\ UNCHANGED <<envVars, threadVars, procVars>>

\* The index library rejects an insertion (line 47): the exception is not
\* caught anywhere.
RBBuildFails ==
    /\ pc = "rb_add"
    /\ build_i < nvec
    /\ Abort("build")
    /\ UNCHANGED <<dataVars, cfg, timer, live, results, search_time, report, issued>>
    /\ UNCHANGED <<envVars, threadVars, procVars>>

\* build_index, lines 51-57.
RBBuildDone ==
    /\ pc = "rb_add"
    /\ build_i >= nvec
    /\ index' = [index EXCEPT !.ef = TRUE]
    /\ pc' = "rb_warmup"
    /\ UNCHANGED <<failed, ngen, vectors, nvec, queries, build_i, warm, warmed, cfg, timer,
                   live, results, search_time, report, issued>>
    /\ UNCHANGED <<envVars, threadVars, procVars>>

\* Lines 117-118: one untimed warm-up query.
RBWarmUp ==
    /\ pc = "rb_warmup"
    /\ warm < WARMUP
    /\ warm' = warm + 1
    /\ warmed' = Append(warmed, index.corpus)
    /\ UNCHANGED <<pc, failed, ngen, vectors, nvec, queries, index, build_i, cfg,
                   timer, live, results, search_time, report, issued>>
    /\ UNCHANGED <<envVars, threadVars, procVars>>

\* Lines 121-126: the table header and the empty results list.
RBWarmUpDone ==
    /\ pc = "rb_warmup"
    /\ warm = WARMUP
    /\ rb_results' = <<>>
    /\ t_i' = 0
    /\ pc' = "rb_loop"
    /\ UNCHANGED <<failed, dataVars, cfg, timer, live, results, search_time,
                   report, issued, num_threads, futures, fres, execs, summary>>
    /\ UNCHANGED <<envVars, procVars>>

\* Lines 127-132: the next entry of THREAD_COUNTS, or the end of the loop.
RBLoop ==
    /\ pc = "rb_loop"
    /\ IF t_i < Len(thread_counts)
       THEN /\ t_i' = t_i + 1
            /\ num_threads' = thread_counts[t_i + 1]
            /\ pc' = IF thread_counts[t_i + 1] = 1 THEN "st_start" ELSE "mt_start"
       ELSE /\ pc' = "rb_summary"
            /\ UNCHANGED <<t_i, num_threads>>
    /\ UNCHANGED <<failed, dataVars, cfg, timer, live, results, search_time,
                   report, issued, futures, fres, execs, rb_results, summary>>
    /\ UNCHANGED <<envVars, procVars>>

\* benchmark_single_thread, lines 67-68.
STStart ==
    /\ pc = "st_start"
    /\ StartConfig("rb", num_threads, queries)
    /\ results' = <<>>
    /\ execs' = [i \in 1..Len(queries) |-> <<>>]
    /\ pc' = "st_query"
    /\ UNCHANGED <<failed, dataVars, live, search_time, report, t_i,
                   num_threads, futures, fres, rb_results, summary>>
    /\ UNCHANGED <<envVars, procVars>>

\* benchmark_single_thread, lines 69-71: one query.
STQuery ==
    /\ pc = "st_query"
    /\ Len(results) < Len(queries)
    /\ results' = Append(results, KnnQuery(index, queries[Len(results) + 1]))
    /\ execs' = [execs EXCEPT ![Len(results) + 1] = Append(@, index.corpus)]
    /\ UNCHANGED <<pc, failed, dataVars, cfg, timer, live, search_time, report,
                   issued, t_i, num_threads, futures, fres, rb_results, summary>>
    /\ UNCHANGED <<envVars, procVars>>

\* benchmark_single_thread, lines 72-73.
STStop ==
    /\ pc = "st_query"
    /\ Len(results) = Len(queries)
    /\ timer' = 0
    /\ \E t \in Durations : search_time' = t
    /\ pc' = "rb_row"
    /\ UNCHANGED <<failed, dataVars, cfg, live, results, report, issued>>
    /\ UNCHANGED <<envVars, threadVars, procVars>>

\* benchmark_multithread, lines 77-81: the timer, the executor (its threads
\* are started on submission) and the argument list.
MTStart ==
    /\ pc = "mt_start"
    /\ StartConfig("rb", num_threads, queries)
    /\ futures' = [i \in 1..Len(queries) |-> "new"]
    /\ fres' = [i \in 1..Len(queries) |-> <<>>]
    /\ execs' = [i \in 1..Len(queries) |-> <<>>]
    /\ results' = <<>>
    /\ pc' = "mt_submit"
    /\ UNCHANGED <<failed, dataVars, live, search_time, report, t_i,
                   num_threads, rb_results, summary>>
    /\ UNCHANGED <<envVars, procVars>>

\* The queries of a state of the futures.
InState(fs, st) == {i \in 1..Len(fs) : fs[i] = st}
\* The least element of a non-empty set of numbers.
First(S) == CHOOSE i \in S : \A j \in S : i <= j
\* The threads of the executor of the running configuration.
Threads == {w \in live : w[1] = cfg}

\* executor.map, line 82: submit() of the next argument; the executor starts
\* a thread while it has fewer than max_workers.
MTSubmit ==
    /\ pc = "mt_submit"
    /\ InState(futures, "new") # {}
    /\ futures' = [futures EXCEPT ![First(InState(futures, "new"))] = "queued"]
    /\ live' = IF Cardinality(Threads) < num_threads
               THEN live \cup {<<cfg, Cardinality(Threads) + 1>>}
               ELSE live
    /\ UNCHANGED <<pc, failed, dataVars, cfg, timer, results, search_time,
                   report, issued, t_i, num_threads, fres, execs, rb_results,
                   summary>>
    /\ UNCHANGED <<envVars, procVars>>

\* A pool thread takes the oldest queued work item and calls search_single
\* (lines 59-63) on it.
ThreadTake ==
    /\ pc = "mt_submit"
    /\ InState(futures, "queued") # {}
    /\ Cardinality(InState(futures, "running")) < Cardinality(Threads)
    /\ LET i == First(InState(futures, "queued")) IN
          /\ futures' = [futures EXCEPT ![i] = "running"]
          /\ execs' = [execs EXCEPT ![i] = Append(@, index.corpus)]
    /\ UNCHANGED <<pc, failed, dataVars, cfg, timer, live, results, search_time,
                   report, issued, t_i, num_threads, fres, rb_results, summary>>
    /\ UNCHANGED <<envVars, procVars>>

\* search_single returns: the future of the work item holds its result.
ThreadFinish ==
    /\ pc = "mt_submit"
    /\ \E i \in InState(futures, "running") :
          /\ futures' = [futures EXCEPT ![i] = "done"]
          /\ fres' = [fres EXCEPT ![i] = KnnQuery(index, queries[i])]
    /\ UNCHANGED <<pc, failed, dataVars, cfg, timer, live, results, search_time,
                   report, issued, t_i, num_threads, execs, rb_results, summary>>
    /\ UNCHANGED <<envVars, procVars>>

\* Mutant of MTCollect: the results are read once every query is submitted,
\* without waiting for the futures.
MTCollectNoWait ==
    /\ pc = "mt_submit"
    /\ InState(futures, "new") = {}
    /\ InState(futures, "running") = {}
    /\ results' = fres
    /\ pc' = "mt_exit"
    /\ UNCHANGED <<failed, dataVars, cfg, timer, live, search_time, report,
                   issued>>
    /\ UNCHANGED <<envVars, threadVars, procVars>>

\* list(executor.map(...)), line 82: every argument was submitted and the
\* results are read from the futures in submission order, waiting for each.
MTCollect ==
    /\ pc = "mt_submit"
    /\ \A i \in 1..Len(futures) : futures[i] = "done"
    /\ results' = fres
    /\ pc' = "mt_exit"
    /\ UNCHANGED <<failed, dataVars, cfg, timer, live, search_time, report,
                   issued>>
    /\ UNCHANGED <<envVars, threadVars, procVars>>

\* Mutant of MTShutdown: shutdown(wait=False), the threads are not joined.
MTShutdownNoWait ==
    /\ pc = "mt_exit"
    /\ pc' = "mt_stop"
    /\ UNCHANGED <<failed, dataVars, cfg, timer, live, results, search_time,
                   report, issued>>
    /\ UNCHANGED <<envVars, threadVars, procVars>>

\* The end of the with block, line 82 to 84: shutdown(wait=True) joins the
\* executor's threads.
MTShutdown ==
    /\ pc = "mt_exit"
    /\ InState(futures, "running") = {}
    /\ live' = live \ Threads
    /\ pc' = "mt_stop"
    /\ UNCHANGED <<failed, dataVars, cfg, timer, results, search_time, report,
                   issued>>
    /\ UNCHANGED <<envVars, threadVars, procVars>>

\* benchmark_multithread, lines 84-85.
MTStopTimer ==
    /\ pc = "mt_stop"
    /\ timer' = 0
    /\ \E t \in Durations : search_time' = t
    /\ pc' = "rb_row"
    /\ UNCHANGED <<failed, dataVars, cfg, live, results, report, issued>>
    /\ UNCHANGED <<envVars, threadVars, procVars>>

\* Lines 134-145: the metric row is printed and appended to results.
RBRow ==
    /\ pc = "rb_row"
    /\ report' = Append(report, [fn |-> "rb", workers |-> num_threads])
    /\ rb_results' = Append(rb_results, [threads |-> num_threads,
                                         search_ms |-> search_time,
                                         qps |-> Qps(search_time)])
    /\ pc' = "rb_loop"
    /\ UNCHANGED <<failed, dataVars, cfg, timer, live, results, search_time,
                   issued, t_i, num_threads, futures, fres, execs, summary>>
    /\ UNCHANGED <<envVars, procVars>>

\* Lines 150-157 with results = rs: the denominator of the speedup is the
\* qps of the first entry.
Summary(rs) ==
    LET best == rs[BestResult(rs)] IN
    [printed |-> TRUE, single_from |-> rs[1].threads, single_qps |-> rs[1].qps,
     best |-> best.threads, speedup |-> Ratio(best.qps, rs[1].qps)]

\* Lines 147-161.
RBSummary ==
    /\ pc = "rb_summary"
    /\ summary' = Summary(rb_results)
    /\ pc' = "rb_return"
    /\ UNCHANGED <<failed, dataVars, cfg, timer, live, results, search_time,
                   report, issued, t_i, num_threads, futures, fres, execs,
                   rb_results>>
    /\ UNCHANGED <<envVars, procVars>>

\* Line 163 and 250: run_benchmark returns; its locals are gone and the main
\* program never reads the returned list.
RBReturn ==
    /\ pc = "rb_return"
    /\ vectors' = 0
    /\ nvec' = 0
    /\ queries' = <<>>
    /\ index' = NoIndex
    /\ build_i' = 0
    /\ warm' = 0
    /\ t_i' = 0
    /\ num_threads' = 0
    /\ futures' = <<>>
    /\ fres' = <<>>
    /\ execs' = <<>>
    /\ results' = <<>>
    /\ search_time' = 0
    /\ rb_results' = <<>>
    /\ summary' = NoSummary
    /\ pc' = "mp_generate"
    /\ UNCHANGED <<failed, ngen, warmed, cfg, timer, live, report, issued>>
    /\ UNCHANGED <<envVars, procVars>>

RunBenchmark ==
    \/ RBGenerate \/ RBSampleFails \/ RBInitIndex \/ RBAddItems \/ RBBuildFails
    \/ RBBuildDone \/ RBWarmUp \/ RBWarmUpDone \/ RBLoop \/ STStart \/ STQuery
    \/ STStop \/ MTStart \/ MTSubmit \/ ThreadTake \/ ThreadFinish \/ MTCollect
    \/ MTShutdown \/ MTStopTimer \/ RBRow \/ RBSummary \/ RBReturn

\* ------------------------------------------- test_with_multiprocessing
\* Lines 172-173: a new corpus and a new query sample.
MPGenerate ==
    /\ pc = "mp_generate"
    /\ ngen' = ngen + 1
    /\ vectors' = ngen + 1
    /\ nvec' = NUM_VECTORS
    /\ \E d \in 0..(MaxDraws - 1) : queries' = Sample(NUM_VECTORS, num_queries, d)
    /\ pc' = "mp_build"
    /\ UNCHANGED <<failed, index, build_i, warm, warmed, cfg, timer, live, results,
                   search_time, report, issued>>
    /\ UNCHANGED <<envVars, threadVars, procVars>>

\* Lines 176-179: the index, built by one add_items call (labels 0..n-1).
MPBuildIndex ==
    /\ pc = "mp_build"
    /\ index' = [corpus |-> vectors, items |-> AddItems(<<>>, [k \in 1..nvec |-> k - 1],
                                    [k \in 1..nvec |-> k - 1]),
                 ef |-> TRUE]
    /\ pc' = "mp_save"
    /\ UNCHANGED <<failed, ngen, vectors, nvec, queries, build_i, warm, warmed, cfg, timer,
                   live, results, search_time, report, issued>>
    /\ UNCHANGED <<envVars, threadVars, procVars>>

\* Lines 182-183: the snapshot.
MPSaveIndex ==
    /\ pc = "mp_save"
    /\ index_file' = [exists |-> TRUE, data |-> index]
    /\ pc' = "mp_baseline"
    /\ UNCHANGED <<failed, dataVars, cfg, timer, live, results, search_time,
                   report, issued, single_qps, mp_i, num_proc, query_batches,
                   bstate, bres, speedup, skipped, launched>>
    /\ UNCHANGED <<envVars, threadVars>>

\* save_index raises (line 183): the exception is not caught anywhere.
MPSaveFails ==
    /\ pc = "mp_save"
    /\ Abort("snapshot")
    /\ UNCHANGED <<dataVars, cfg, timer, live, results, search_time, report, issued>>
    /\ UNCHANGED <<envVars, threadVars, procVars>>

\* Line 205: the baseline's timer.
MPBaselineStart ==
    /\ pc = "mp_baseline"
    /\ StartConfig("mp", 1, queries)
    /\ results' = <<>>
    /\ pc' = "mp_base_query"
    /\ UNCHANGED <<failed, dataVars, live, search_time, report>>
    /\ UNCHANGED <<envVars, threadVars, procVars>>

\* Line 206: one query of the list comprehension.
MPBaselineQuery ==
    /\ pc = "mp_base_query"
    /\ Len(results) < Len(queries)
    /\ results' = Append(results, KnnQuery(index, queries[Len(results) + 1]))
    /\ UNCHANGED <<pc, failed, dataVars, cfg, timer, live, search_time, report,
                   issued>>
    /\ UNCHANGED <<envVars, threadVars, procVars>>

\* Lines 207-209: the baseline row, printed with the literal speedup 1.0.
MPBaselineStop ==
    /\ pc = "mp_base_query"
    /\ Len(results) = Len(queries)
    /\ timer' = 0
    /\ \E t \in Durations :
          /\ search_time' = t
          /\ single_qps' = Qps(t)
    /\ speedup' = [num |-> 1, den |-> 1]
    /\ report' = Append(report, [fn |-> "mp", workers |-> 1])
    /\ mp_i' = 0
    /\ pc' = "mp_loop"
    /\ UNCHANGED <<failed, dataVars, cfg, live, results, issued, index_file,
                   num_proc, query_batches, bstate, bres, skipped, launched>>
    /\ UNCHANGED <<envVars, threadVars>>

\* Line 212: the next process count, or the end of the loop.
MPLoop ==
    /\ pc = "mp_loop"
    /\ IF mp_i < Len(PROC_COUNTS)
       THEN /\ mp_i' = mp_i + 1
            /\ num_proc' = PROC_COUNTS[mp_i + 1]
            /\ pc' = "mp_check"
       ELSE /\ pc' = "mp_cleanup"
            /\ UNCHANGED <<mp_i, num_proc>>
    /\ UNCHANGED <<failed, dataVars, cfg, timer, live, results, search_time,
                   report, issued, index_file, single_qps, query_batches,
                   bstate, bres, speedup, skipped, launched>>
    /\ UNCHANGED <<envVars, threadVars>>

\* Mutant of ExceedsCpu: a process count equal to cpu_count() is skipped too.
ExceedsCpuOrEqual(p, n) == p >= n

\* The condition of line 213.
ExceedsCpu(p, n) == p > n

\* Mutant of MPSkip: the skipped configuration is printed as a row.
MPSkipReported ==
    /\ pc = "mp_check"
    /\ ExceedsCpu(num_proc, ncpu)
    /\ skipped' = skipped \cup {num_proc}
    /\ report' = Append(report, [fn |-> "mp", workers |-> num_proc])
    /\ pc' = "mp_loop"
    /\ UNCHANGED <<failed, dataVars, cfg, timer, live, results, search_time,
                   issued, index_file, single_qps, mp_i, num_proc,
                   query_batches, bstate, bres, speedup, launched>>
    /\ UNCHANGED <<envVars, threadVars>>

\* Lines 213-214: continue.
MPSkip ==
    /\ pc = "mp_check"
    /\ ExceedsCpu(num_proc, ncpu)
    /\ skipped' = skipped \cup {num_proc}
    /\ pc' = "mp_loop"
    /\ UNCHANGED <<failed, dataVars, cfg, timer, live, results, search_time,
                   report, issued, index_file, single_qps, mp_i, num_proc,
                   query_batches, bstate, bres, speedup, launched>>
    /\ UNCHANGED <<envVars, threadVars>>

\* Mutant of QueryBatches: exactly p batches of batch_size, the remainder
\* of the division left out.
QueryBatchesNoRemainder(qs, p) ==
    LET batch_size == Len(qs) \div p
    IN  [j \in 1..p |-> SubSeq(qs, (j - 1) * batch_size + 1, j * batch_size)]

\* Lines 217-218: batch_size = len(queries) // num_proc and the slices
\* queries[i:i+batch_size] for i in range(0, len(queries), batch_size); a
\* slice ends at the end of the list.
QueryBatches(qs, p) ==
    LET batch_size == Len(qs) \div p
        starts == {i \in 0..(Len(qs) - 1) : i % batch_size = 0}
    IN  [j \in 1..Cardinality(starts) |->
            SubSeq(qs, (j - 1) * batch_size + 1, Min(j * batch_size, Len(qs)))]

\* Lines 216-219 (range() raises ValueError for a batch_size of 0, which
\* needs more processes than queries).
MPSplit ==
    /\ pc = "mp_check"
    /\ ~ExceedsCpu(num_proc, ncpu)
    /\ Len(queries) \div num_proc > 0
    /\ query_batches' = QueryBatches(queries, num_proc)
    /\ pc' = "mp_pool"
    /\ UNCHANGED <<failed, dataVars, cfg, timer, live, results, search_time,
                   report, issued, index_file, single_qps, mp_i, num_proc,
                   bstate, bres, speedup, skipped, launched>>
    /\ UNCHANGED <<envVars, threadVars>>

\* Mutant of MPPoolStart: the batches are handed to the pool last first.
MPPoolStartReversed ==
    /\ pc = "mp_pool"
    /\ query_batches' = [j \in 1..Len(query_batches) |->
                            query_batches[Len(query_batches) + 1 - j]]
    /\ StartConfig("mp", num_proc, Flatten(query_batches'))
    /\ live' = live \cup {<<cfg + 1, w>> : w \in 1..num_proc}
    /\ launched' = launched \cup {num_proc}
    /\ bstate' = [j \in 1..Len(query_batches) |-> "queued"]
    /\ bres' = [j \in 1..Len(query_batches) |-> <<>>]
    /\ pc' = "mp_map"
    /\ UNCHANGED <<failed, dataVars, results, search_time, report, index_file,
                   single_qps, mp_i, num_proc, speedup, skipped>>
    /\ UNCHANGED <<envVars, threadVars>>

\* Lines 221-222: the timer and the pool, whose num_proc worker processes
\* are started by its constructor.
MPPoolStart ==
    /\ pc = "mp_pool"
    /\ StartConfig("mp", num_proc, Flatten(query_batches))
    /\ live' = live \cup {<<cfg + 1, w>> : w \in 1..num_proc}
    /\ launched' = launched \cup {num_proc}
    /\ bstate' = [j \in 1..Len(query_batches) |-> "queued"]
    /\ bres' = [j \in 1..Len(query_batches) |-> <<>>]
    /\ pc' = "mp_map"
    /\ UNCHANGED <<failed, dataVars, results, search_time, report, index_file,
                   single_qps, mp_i, num_proc, query_batches, speedup, skipped>>
    /\ UNCHANGED <<envVars, threadVars>>

\* Pool(num_proc) raises (line 222: the worker processes cannot be started).
MPPoolFails ==
    /\ pc = "mp_pool"
    /\ StartConfig("mp", num_proc, Flatten(query_batches))
    /\ Abort("pool")
    /\ UNCHANGED <<dataVars, live, results, search_time, report>>
    /\ UNCHANGED <<envVars, threadVars, procVars>>

\* The worker processes of the pool of the running configuration.
Procs == {w \in live : w[1] = cfg}

\* A worker process takes the oldest queued batch and calls search_batch
\* (lines 185-197) on it.
ProcTake ==
    /\ pc = "mp_map"
    /\ InState(bstate, "queued") # {}
    /\ Cardinality(InState(bstate, "running")) < Cardinality(Procs)
    /\ bstate' = [bstate EXCEPT ![First(InState(bstate, "queued"))] = "running"]
    /\ UNCHANGED <<pc, failed, dataVars, cfg, timer, live, results, search_time,
                   report, issued, index_file, single_qps, mp_i, num_proc,
                   query_batches, bres, speedup, skipped, launched>>
    /\ UNCHANGED <<envVars, threadVars>>

\* search_batch, lines 187-197: the worker's own index, loaded from the
\* snapshot, answers the batch's queries in order.
SearchBatch(batch, file) == [i \in 1..Len(batch) |-> KnnQuery(file.data, batch[i])]

\* search_batch returns.
ProcFinish ==
    /\ pc = "mp_map"
    /\ \E j \in InState(bstate, "running") :
          /\ bstate' = [bstate EXCEPT ![j] = "done"]
          /\ bres' = [bres EXCEPT ![j] = SearchBatch(query_batches[j], index_file)]
    /\ UNCHANGED <<pc, failed, dataVars, cfg, timer, live, results, search_time,
                   report, issued, index_file, single_qps, mp_i, num_proc,
                   query_batches, speedup, skipped, launched>>
    /\ UNCHANGED <<envVars, threadVars>>

\* A task raises (the function or a batch cannot be sent to the worker, or
\* load_index fails): pool.map re-raises in the main program, the with block
\* of line 222 terminates and joins the workers, and nothing catches it.
ProcFails ==
    /\ pc = "mp_map"
    /\ \E j \in InState(bstate, "running") :
          bstate' = [bstate EXCEPT ![j] = "failed"]
    /\ live' = live \ Procs
    /\ Abort("worker")
    /\ UNCHANGED <<dataVars, cfg, timer, results, search_time, report, issued,
                   index_file, single_qps, mp_i, num_proc, query_batches, bres,
                   speedup, skipped, launched>>
    /\ UNCHANGED <<envVars, threadVars>>

\* pool.map returns the batches' results in batch order (line 223).
MPMapDone ==
    /\ pc = "mp_map"
    /\ \A j \in 1..Len(bstate) : bstate[j] = "done"
    /\ results' = bres
    /\ pc' = "mp_exit"
    /\ UNCHANGED <<failed, dataVars, cfg, timer, live, search_time, report,
                   issued>>
    /\ UNCHANGED <<envVars, threadVars, procVars>>

\* The end of the with block, line 223 to 225: Pool.__exit__ terminates the
\* worker processes and joins them.
MPPoolExit ==
    /\ pc = "mp_exit"
    /\ live' = live \ Procs
    /\ pc' = "mp_stop"
    /\ UNCHANGED <<failed, dataVars, cfg, timer, results, search_time, report,
                   issued>>
    /\ UNCHANGED <<envVars, threadVars, procVars>>

\* Lines 225-229: the timer stops and the row is printed.
MPStopTimer ==
    /\ pc = "mp_stop"
    /\ timer' = 0
    /\ \E t \in Durations :
          /\ search_time' = t
          /\ speedup' = Ratio(Qps(t), single_qps)
    /\ report' = Append(report, [fn |-> "mp", workers |-> num_proc])
    /\ pc' = "mp_loop"
    /\ UNCHANGED <<failed, dataVars, cfg, live, results, issued, index_file,
                   single_qps, mp_i, num_proc, query_batches, bstate, bres,
                   skipped, launched>>
    /\ UNCHANGED <<envVars, threadVars>>

\* Lines 231-235 and 255-257: the snapshot is removed and the program ends.
MPCleanup ==
    /\ pc = "mp_cleanup"
    /\ index_file' = IF index_file.exists THEN NoFile ELSE index_file
    /\ pc' = "done"
    /\ UNCHANGED <<failed, dataVars, cfg, timer, live, results, search_time,
                   report, issued, single_qps, mp_i, num_proc, query_batches,
                   bstate, bres, speedup, skipped, launched>>
    /\ UNCHANGED <<envVars, threadVars>>

TestWithMultiprocessing ==
    \/ MPGenerate \/ MPBuildIndex \/ MPSaveIndex \/ MPSaveFails
    \/ MPBaselineStart \/ MPBaselineQuery \/ MPBaselineStop \/ MPLoop
    \/ MPSkip \/ MPSplit \/ MPPoolStart \/ MPPoolFails \/ ProcTake
    \/ ProcFinish \/ ProcFails \/ MPMapDone \/ MPPoolExit \/ MPStopTimer
    \/ MPCleanup

Next == RunBenchmark \/ TestWithMultiprocessing

\* ------------------------------------------- the partition on its own
\* A state at line 216 with any sample of 1..MaxSample queries and any
\* process count from 1 up to the sample size.
PartInit ==
    /\ pc = "mp_check"
    /\ failed = ""
    /\ thread_counts \in ThreadSweeps
    /\ \E m \in 1..MaxSample :
          /\ num_queries = m
          /\ \E d \in 0..(MaxSample - 1) : queries = Sample(MaxSample, m, d)
          /\ num_proc \in 1..m
    /\ ncpu = num_proc
    /\ ngen = 2
    /\ vectors = 2
    /\ nvec = MaxSample
    /\ index = [corpus |-> 2, items |-> AddItems(<<>>, [k \in 1..MaxSample |-> k - 1],
                                    [k \in 1..MaxSample |-> k - 1]),
                ef |-> TRUE]
    /\ build_i = 0
    /\ warm = 0
    /\ warmed = [k \in 1..WARMUP |-> 1]
    /\ t_i = 0
    /\ num_threads = 0
    /\ cfg = 0
    /\ timer = 0
    /\ live = {}
    /\ futures = <<>>
    /\ fres = <<>>
    /\ execs = <<>>
    /\ results = <<>>
    /\ search_time = 0
    /\ rb_results = <<>>
    /\ summary = NoSummary
    /\ report = <<>>
    /\ issued = <<>>
    /\ index_file = [exists |-> TRUE, data |-> index]
    /\ single_qps = Qps(1)
    /\ mp_i = 1
    /\ query_batches = <<>>
    /\ bstate = <<>>
    /\ bres = <<>>
    /\ speedup = [num |-> 1, den |-> 1]
    /\ skipped = {}
    /\ launched = {}

PartNext == MPSplit

PartSpec == PartInit /\ [][PartNext]_vars


\* ------------------------------------------------- build_index on its own
\* A state at line 113 with any corpus of 1..NUM_VECTORS vectors (the
\* capacity the index is initialised with, line 39) and any sample of it.
BuildInit ==
    /\ pc = "rb_build"
    /\ failed = ""
    /\ ncpu \in 1..MaxCpu
    /\ thread_counts \in ThreadSweeps
    /\ ngen = 1
    /\ vectors = 1
    /\ \E n \in 1..NUM_VECTORS :
          /\ nvec = n
          /\ num_queries \in 1..n
          /\ \E d \in 0..(MaxDraws - 1) : queries = Sample(n, num_queries, d)
    /\ index = NoIndex
    /\ build_i = 0
    /\ warm = 0
    /\ warmed = <<>>
    /\ t_i = 0
    /\ num_threads = 0
    /\ cfg = 0
    /\ timer = 0
    /\ live = {}
    /\ futures = <<>>
    /\ fres = <<>>
    /\ execs = <<>>
    /\ results = <<>>
    /\ search_time = 0
    /\ rb_results = <<>>
    /\ summary = NoSummary
    /\ report = <<>>
    /\ issued = <<>>
    /\ index_file = NoFile
    /\ single_qps = [num |-> 0, den |-> 1]
    /\ mp_i = 0
    /\ num_proc = 0
    /\ query_batches = <<>>
    /\ bstate = <<>>
    /\ bres = <<>>
    /\ speedup = [num |-> 0, den |-> 1]
    /\ skipped = {}
    /\ launched = {}

BuildNext == RBInitIndex \/ RBAddItems \/ RBBuildFails \/ RBBuildDone

BuildSpec == BuildInit /\ [][BuildNext]_vars


Spec == Init /\ [][Next]_vars

\* ------------------------------------------------------------- properties
\* Whether the report holds a row of `fn` for `workers`.
HasRow(fn, workers) ==
    \E k \in 1..Len(report) : report[k].fn = fn /\ report[k].workers = workers
\* Whether a configuration of `fn` with `workers` was timed.
Timed(fn, workers) ==
    \E k \in 1..Len(issued) : issued[k].fn = fn /\ issued[k].workers = workers

\* C1: once the batches of a process configuration are built (1 <= p <= M),
\* their concatenation in batch order is the query sample itself: same
\* length, same elements, same order.
C1_PartitionLaw ==
    pc = "mp_pool" =>
        /\ Flatten(query_batches) = queries
        /\ Len(Flatten(query_batches)) = Len(queries)

\* C1 witness: a partition with a remainder has been built.
C1_Witness ==
    /\ pc = "mp_pool"
    /\ num_proc > 1
    /\ Len(queries) % num_proc # 0
    /\ Len(query_batches) > 1

\* C2 as claimed: exactly p batches, the first p-1 of floor(M/p) queries and
\* the last of floor(M/p) + (M mod p).
C2_ExactlyPBatches ==
    pc = "mp_pool" =>
        /\ Len(query_batches) = num_proc
        /\ \A j \in 1..(Len(query_batches) - 1) :
              Len(query_batches[j]) = Len(queries) \div num_proc
        /\ Len(query_batches[Len(query_batches)])
              = (Len(queries) \div num_proc) + (Len(queries) % num_proc)

\* C3 as claimed: when the program has ended, normally or by an exception,
\* the snapshot file does not exist.
C3_SnapshotRemoved ==
    pc \in {"done", "aborted"} => ~index_file.exists

\* C4: pool workers are alive only while the timer of their own, the latest,
\* configuration runs; where a configuration begins no timer runs and no
\* worker is alive.
C4_Sequential ==
    /\ timer \in {0, cfg}
    /\ \A w \in live : w[1] = cfg /\ timer = cfg
    /\ pc \in {"rb_loop", "st_start", "mt_start", "rb_row", "mp_baseline",
               "mp_loop", "mp_check", "mp_pool"} =>
          /\ timer = 0
          /\ live = {}

\* C4 witness: workers of a configuration are alive after an earlier
\* configuration had workers of its own.
C4_Witness ==
    /\ live # {}
    /\ \E k \in 1..Len(issued) : k < cfg /\ issued[k].workers > 1

\* C5: in a thread-pool configuration no query is executed twice and every
\* execution is against the canonical index; once the results are collected
\* (and so whenever the timer has stopped) every query was executed exactly
\* once and the result list holds the M results in submission order.
C5_PooledExactlyOnce ==
    (num_threads > 1 /\ pc \in {"mt_submit", "mt_exit", "mt_stop", "rb_row"}) =>
        /\ \A i \in 1..Len(queries) :
              /\ Len(execs[i]) <= 1
              /\ \A k \in 1..Len(execs[i]) : execs[i][k] = index.corpus
        /\ (pc # "mt_submit" \/ timer = 0) =>
              /\ \A i \in 1..Len(queries) : Len(execs[i]) = 1
              /\ \A i \in 1..Len(queries) : futures[i] = "done"
              /\ results = [i \in 1..Len(queries) |-> KnnQuery(index, queries[i])]

\* C5 witness: a pool of more threads than queries has finished its run.
C5_Witness ==
    /\ pc = "rb_row"
    /\ num_threads > Len(queries)
    /\ Len(results) = Len(queries)

ExpectedRows ==
    [i \in 1..Len(thread_counts) |-> [fn |-> "rb", workers |-> thread_counts[i]]]
    \o <<[fn |-> "mp", workers |-> 1]>>
    \o [i \in 1..Len(SelectSeq(PROC_COUNTS, LAMBDA p : p <= ncpu)) |->
          [fn |-> "mp", workers |-> SelectSeq(PROC_COUNTS, LAMBDA p : p <= ncpu)[i]]]

C8_NoPartialReport ==
    pc = "aborted" => report = <<>>

C11_OversizedSampleRejected ==
    num_queries > NUM_VECTORS =>
        /\ pc \in {"rb_generate", "aborted"}
        /\ pc = "aborted" => failed = "sample"
        /\ index = NoIndex
        /\ index_file = NoFile
        /\ cfg = 0
        /\ timer = 0
        /\ issued = <<>>
        /\ report = <<>>

\* C11 witness: the run with more queries than vectors has ended by the
\* sampling exception.
C11_Witness ==
    /\ num_queries > NUM_VECTORS
    /\ pc = "aborted"
    /\ failed = "sample"
    /\ vectors # 0

\* C12 as claimed: whenever the timer of a configuration runs, the WARMUP
\* untimed warm-up queries against that configuration's canonical index
\* have been issued.
C12_WarmUpBeforeTiming ==
    timer # 0 =>
        Cardinality({k \in 1..Len(warmed) : warmed[k] = index.corpus}) = WARMUP

\* The labels of the items of an index, in insertion order.
Labels(idx) == [k \in 1..Len(idx.items) |-> idx.items[k].label]

\* C13: while build_index runs and when it has returned, the index holds
\* the vectors of the batches inserted so far, vector i under label i, each
\* once and in ascending label order, whole batches except for a short last
\* one; when it has returned the labels are exactly 0..n-1.
C13_BuildAscending ==
    /\ pc \in {"rb_add", "rb_warmup"} =>
          /\ build_i % BATCH_SIZE = 0
          /\ Len(index.items) = Min(build_i, nvec)
          /\ \A k \in 1..Len(index.items) :
                /\ index.items[k].label = index.items[k].vec
                /\ index.items[k].vec = k - 1
          /\ \A j, k \in 1..Len(index.items) :
                j < k => Labels(index)[j] < Labels(index)[k]
    /\ pc = "rb_warmup" =>
          /\ Len(index.items) = nvec
          /\ {Labels(index)[k] : k \in 1..Len(index.items)} = 0..(nvec - 1)

\* C13 witness: build_index has returned for a corpus that is longer than
\* one batch and not a multiple of the batch size.
C13_Witness ==
    /\ pc = "rb_warmup"
    /\ nvec > BATCH_SIZE
    /\ nvec % BATCH_SIZE # 0
    /\ Len(index.items) = nvec

====
